---- MODULE Spec2Model ----
(***************************************************************************)
(* Model of internal/core/app.go: the App aggregate of the orchestrator.   *)
(*                                                                         *)
(*   newApp / initMappers   construction, mapper plugins, converter chain  *)
(*   App.Close              teardown through the closers list              *)
(*   App.callDynamicFunc    the dynamic invocation engine                  *)
(*   App.mergeLabels        label layering                                 *)
(*                                                                         *)
(* Go slices are modelled with their backing arrays (heap), so that        *)
(* append's in-place writes and reallocation are visible.                  *)
(***************************************************************************)
EXTENDS Integers, Sequences, FiniteSets, TLC

\* ------------------------------------------------------------------ bounds
MaxPlugins     == 2   \* mapper plugins the factory may have registered
MaxProjMappers == 2   \* length of the project-level converter chain
MaxSpareCap    == 1   \* unused capacity behind the project's chain
MaxExports     == 2   \* converters one mapper plugin may export
MaxCloses      == 2   \* calls of App.Close by the owner
MaxCalls       == 1   \* callDynamicFunc invocations explored with all inputs
MaxConcurrent  == 2   \* invocations running at once on one App
MaxOverrides   == 2   \* label sets passed to one mergeLabels call

Nil == "nil"

\* ------------------------------------------------------------------ state
VARIABLES
    heap,          \* backing arrays of all []*argmapper.Func slices
    p_mappers,     \* Project.mappers (slice header)
    p_factories,   \* TRUE iff p.factories[component.MapperType] is present
    registered,    \* f.Registered(): plugin names in registration order
    a_mappers,     \* App.mappers (slice header)
    a_closers,     \* App.closers: sequence of closures
    a_dir,         \* App.dir
    plugin,        \* plugin process state per name
    exported,      \* pinst.Mappers per started plugin
    pluginCloses,  \* number of pinst.Close() calls per plugin
    newPc,         \* position inside newApp
    newIdx,        \* index of the range loop of initMappers
    newRet,        \* what newApp returned: [app, err]
    closePc,       \* position inside App.Close
    closeIdx,      \* index of the range loop of Close
    closeInvoked,  \* closers invoked by the Close call in progress / last
    closeFailed,   \* some pinst.Close() of that call reported a failure
    closeRet,      \* what the last Close returned
    closeCalls,    \* completed calls of Close
    call,          \* the callDynamicFunc invocations, one record per slot
    labels         \* a call of App.mergeLabels: its layers and its result

lifeVars == << heap, p_mappers, p_factories, registered, a_mappers, a_closers,
               a_dir, plugin, exported, pluginCloses, newPc, newIdx, newRet >>
closeVars == << closePc, closeIdx, closeInvoked, closeFailed, closeRet,
                closeCalls >>
vars == << lifeVars, closeVars, call, labels >>

Names == 1 .. MaxPlugins

\* ------------------------------------------------------------- Go slices
\* The zero value stored in an unused cell of a backing array.
ZeroCell == << "zero", 0 >>

\* A nil / empty slice: no backing array.
EmptySlice == [arr |-> 0, len |-> 0, cap |-> 0]

\* s[0:len(s)] as a sequence.
Contents(h, s) == [i \in 1 .. s.len |-> h[s.arr][i]]

\* runtime growslice: the capacity of the array append allocates. The
\* runtime may round the doubled capacity up to its size class.
GrowCaps(old, needed) ==
    LET base == IF needed > 2 * old THEN needed ELSE 2 * old
    IN  { base, base + 1 }

\* append(s, xs...): in place when the capacity suffices, else into a new
\* array of capacity c. Yields the new slice header and the new heap.
GoAppend(h, s, xs, c) ==
    LET n == s.len + Len(xs)
    IN  IF n <= s.cap
        THEN [ s |-> [s EXCEPT !.len = n],
               h |-> IF Len(xs) = 0 THEN h
                     ELSE [h EXCEPT ![s.arr] =
                            [i \in 1 .. s.cap |->
                               IF i > s.len /\ i <= n THEN xs[i - s.len]
                               ELSE h[s.arr][i]]] ]
        ELSE [ s |-> [arr |-> Len(h) + 1, len |-> n, cap |-> c],
               h |-> Append(h, [i \in 1 .. c |->
                                  IF i <= s.len THEN h[s.arr][i]
                                  ELSE IF i <= n THEN xs[i - s.len]
                                  ELSE ZeroCell]) ]

\* ------------------------------------------------------------- the project
\* The converters of the project-level chain.
ProjConv(k) == << "proj", k >>

\* The project's backing array: n converters and spare unused cells.
ProjArray(n, spare) ==
    [i \in 1 .. n + spare |-> IF i <= n THEN ProjConv(i) ELSE ZeroCell]

\* Converter k exported by mapper plugin name.
PluginConv(name, k) == << "plugin", 10 * name + k >>

\* ------------------------------------------------------------- newApp
ErrDir == "err: app directory"
ErrStart(name) == "err: start plugin " \o ToString(name)

\* The state of a freshly entered newApp, before line 71.
NoApp == [app |-> FALSE, err |-> Nil]

\* Line 85 with the project's chain aliased instead of copied.
AliasedMappers(h, p, c) == [s |-> p, h |-> h]

\* Line 85: append([]*argmapper.Func{}, p.mappers...), a fresh slice.
NewMappers(h, p, c) == GoAppend(h, EmptySlice, Contents(h, p), c)

\* Lines 71-98: allocate the App, copying the project's chain.
newApp_Alloc ==
    /\ newPc = "start"
    /\ \E c \in GrowCaps(0, p_mappers.len) :
          LET r == NewMappers(heap, p_mappers, c)
          IN  /\ a_mappers' = r.s
              /\ heap' = r.h
    /\ a_closers' = << >>
    /\ newPc' = "dir"
    /\ UNCHANGED << p_mappers, p_factories, registered, a_dir, plugin,
                    exported, pluginCloses, newIdx, newRet, closeVars, call, labels >>

\* Lines 101-105 with the error of p.dir.App left unchecked: construction
\* goes on with a nil directory.
newApp_DirUnchecked(ok, ret) ==
    [pc |-> "factory", ret |-> ret, dir |-> IF ok THEN "dir" ELSE Nil]

\* Lines 101-105: on an error newApp returns nil and the error; otherwise
\* the directory is stored and construction goes on.
newApp_DirOutcome(ok, ret) ==
    IF ok
    THEN [pc |-> "factory", ret |-> ret, dir |-> "dir"]
    ELSE [pc |-> "done", ret |-> [app |-> FALSE, err |-> ErrDir], dir |-> Nil]

\* Lines 101-105: dir, err := p.dir.App(cfg.Name).
newApp_Dir ==
    /\ newPc = "dir"
    /\ \E ok \in BOOLEAN :
          LET o == newApp_DirOutcome(ok, newRet)
          IN  /\ a_dir' = o.dir
              /\ newPc' = o.pc
              /\ newRet' = o.ret
    /\ UNCHANGED << heap, p_mappers, p_factories, registered, a_mappers,
                    a_closers, plugin, exported, pluginCloses, newIdx,
                    closeVars, call, labels >>

\* Lines 108 and 143: without a mapper factory the App is returned as is.
newApp_Factory ==
    /\ newPc = "factory"
    /\ IF p_factories
       THEN /\ newPc' = "loop"
            /\ newIdx' = 1
            /\ UNCHANGED newRet
       ELSE /\ newPc' = "done"
            /\ newRet' = [app |-> TRUE, err |-> Nil]
            /\ UNCHANGED newIdx
    /\ UNCHANGED << heap, p_mappers, p_factories, registered, a_mappers,
                    a_closers, a_dir, plugin, exported, pluginCloses,
                    closeVars, call, labels >>

\* a.startPlugin: the plugin either runs and exports n converters, or it
\* failed to start and left no process behind.
startPlugin(name, ok, n) ==
    IF ok
    THEN [err |-> Nil, Mappers |-> [k \in 1 .. n |-> PluginConv(name, k)]]
    ELSE [err |-> ErrStart(name), Mappers |-> << >>]

\* Lines 286-289: the closure appended for a started plugin instance.
Closer(name) == [pinst |-> name]

\* Line 283: a.mappers = append(a.mappers, pinst.Mappers...).
AppendMappers(h, s, xs, c) == GoAppend(h, s, xs, c)

\* Line 286 assigning a one-element list instead of appending.
ReplaceClosers(closers, name) == << Closer(name) >>

\* Line 286: a.closers = append(a.closers, func() error {...}).
AppendCloser(closers, name) == Append(closers, Closer(name))

\* Lines 278-280 skipping the plugin that failed and going on with the
\* next registered one.
initMappers_SkipFailed(err, idx, ret) ==
    [pc |-> "loop", idx |-> idx + 1, ret |-> ret]

\* Lines 278-280 and 110-112: the start error leaves the loop; initMappers
\* returns it and newApp returns nil with it.
initMappers_OnStartError(err, idx, ret) ==
    [pc |-> "done", idx |-> idx, ret |-> [app |-> FALSE, err |-> err]]

\* Lines 273-290: one iteration of the loop of initMappers. A failed start
\* returns the error through newApp (lines 279, 111).
initMappers_Start ==
    /\ newPc = "loop"
    /\ newIdx <= Len(registered)
    /\ LET name == registered[newIdx]
       IN  \E ok \in BOOLEAN, n \in 0 .. MaxExports :
             LET pinst == startPlugin(name, ok, n)
             IN  IF pinst.err # Nil
                 THEN LET o == initMappers_OnStartError(pinst.err, newIdx,
                                                        newRet)
                      IN  /\ plugin' = [plugin EXCEPT ![name] = "failed"]
                          /\ newRet' = o.ret
                          /\ newPc' = o.pc
                          /\ newIdx' = o.idx
                          /\ UNCHANGED << heap, a_mappers, a_closers,
                                          exported >>
                 ELSE /\ plugin' = [plugin EXCEPT ![name] = "running"]
                      /\ exported' = [exported EXCEPT ![name] = pinst.Mappers]
                      /\ \E c \in GrowCaps(a_mappers.cap,
                                           a_mappers.len + Len(pinst.Mappers)) :
                            LET r == AppendMappers(heap, a_mappers,
                                                   pinst.Mappers, c)
                            IN  /\ a_mappers' = r.s
                                /\ heap' = r.h
                      /\ a_closers' = AppendCloser(a_closers, name)
                      /\ newIdx' = newIdx + 1
                      /\ UNCHANGED << newRet, newPc >>
    /\ UNCHANGED << p_mappers, p_factories, registered, a_dir, pluginCloses,
                    closeVars, call, labels >>

\* Lines 292 and 143: the loop is over; initMappers returns nil and newApp
\* returns the App.
initMappers_Done ==
    /\ newPc = "loop"
    /\ newIdx > Len(registered)
    /\ newPc' = "done"
    /\ newRet' = [app |-> TRUE, err |-> Nil]
    /\ UNCHANGED << heap, p_mappers, p_factories, registered, a_mappers,
                    a_closers, a_dir, plugin, exported, pluginCloses, newIdx,
                    closeVars, call, labels >>

\* ------------------------------------------------------------- App.Close
\* Line 153 returning the failure of a handle instead of nil.
Close_ResultLastError(failed) == IF failed THEN "err: close" ELSE Nil

\* Line 153: return nil.
Close_Result(failed) == Nil

\* Line 149: for _, c := range a.closers.
Close_InRange(i, n) == i <= n

\* Line 148: the owner of a constructed App calls Close.
Close_Begin ==
    /\ newPc = "done"
    /\ newRet.app
    /\ closePc \in {"idle", "returned"}
    /\ closeCalls < MaxCloses
    /\ closePc' = "loop"
    /\ closeIdx' = 1
    /\ closeInvoked' = << >>
    /\ closeFailed' = FALSE
    /\ UNCHANGED << lifeVars, closeRet, closeCalls, call, labels >>

\* Lines 149-151 and 286-289: c() runs pinst.Close() and returns nil,
\* whatever became of the plugin's shutdown.
Close_Handle ==
    /\ closePc = "loop"
    /\ Close_InRange(closeIdx, Len(a_closers))
    /\ LET name == a_closers[closeIdx].pinst
       IN  \E ok \in BOOLEAN :
             /\ pluginCloses' = [pluginCloses EXCEPT ![name] = @ + 1]
             /\ plugin' = [plugin EXCEPT ![name] =
                              IF ok THEN "closed" ELSE @]
             /\ closeFailed' = (closeFailed \/ ~ok)
             /\ closeInvoked' = Append(closeInvoked, [i |-> closeIdx, ok |-> ok])
    /\ closeIdx' = closeIdx + 1
    /\ UNCHANGED << heap, p_mappers, p_factories, registered, a_mappers,
                    a_closers, a_dir, exported, newPc, newIdx, newRet,
                    closePc, closeRet, closeCalls, call, labels >>

\* Line 153.
Close_Return ==
    /\ closePc = "loop"
    /\ ~Close_InRange(closeIdx, Len(a_closers))
    /\ closeRet' = Close_Result(closeFailed)
    /\ closePc' = "returned"
    /\ closeCalls' = closeCalls + 1
    /\ UNCHANGED << lifeVars, closeIdx, closeInvoked, closeFailed, call, labels >>

\* ------------------------------------------------------ App.callDynamicFunc
Calls == 1 .. MaxCalls

\* The invocations that run concurrently on one App.
Concurrent == 1 .. MaxConcurrent

\* All invocation slots.
Slots == Calls \cup Concurrent

\* The expected result types callers pass: nil, or (*Iface)(nil).
Capabilities == {"CapA", "CapB"}

\* The dynamic types a function may produce, with the interfaces they
\* implement.
TypeImpl == [TA |-> {"CapA"}, TAB |-> {"CapA", "CapB"}, TNone |-> {}]

\* The values a function may produce, with their dynamic types.
ValueType == [vA |-> "TA", vAB |-> "TAB", vNone |-> "TNone"]
Raws == DOMAIN ValueType

\* f as handed in: an *argmapper.Func, a plain function NewFunc accepts,
\* or a value NewFunc rejects.
FuncKinds == {"Func", "plain", "bad"}

ErrNewFunc   == "err: newfunc"
ErrResolve   == "err: unresolvable argument"
ErrCall      == "err: call"
ErrCanceled  == "err: context canceled"
ErrPrecondition(iface, rawType) ==
    "FailedPrecondition: expected " \o iface \o ", got " \o rawType

NoResult == [out |-> Nil, err |-> Nil]
NoReturn == [val |-> Nil, err |-> Nil]

IdleCall ==
    [ pc |-> "idle", f |-> Nil, result |-> Nil, rawFunc |-> Nil,
      defers |-> << >>, opened |-> 0, closed |-> 0, funcCalls |-> 0,
      callResult |-> NoResult, verified |-> FALSE, ctxDone |-> FALSE,
      cancelledInFlight |-> FALSE, ret |-> NoReturn, convs |-> EmptySlice ]

\* reflect.TypeOf(raw): the nil Type for a nil interface value.
TypeOf(raw) == IF raw = Nil THEN Nil ELSE ValueType[raw]

\* Running the deferred calls of the frame when it is left: each deferred
\* Status.Close closes the status once.
RunDefers(cs) ==
    [cs EXCEPT !.closed = @ + Len(cs.defers), !.defers = << >>]

\* A return that leaves without closing the status when it carries an error.
ReturnLeakOnError(cs, val, err) ==
    IF err = Nil
    THEN [RunDefers(cs) EXCEPT !.pc = "returned",
                               !.ret = [val |-> val, err |-> err]]
    ELSE [cs EXCEPT !.pc = "returned", !.ret = [val |-> val, err |-> err]]

\* A return statement of callDynamicFunc after line 224: the deferred
\* calls run, then the caller has (val, err).
Return(cs, val, err) ==
    [RunDefers(cs) EXCEPT !.pc = "returned",
                          !.ret = [val |-> val, err |-> err]]

\* A run-time panic unwinding the frame: the deferred calls run, nothing
\* is returned.
Panic(cs) == [RunDefers(cs) EXCEPT !.pc = "panicked"]

\* Line 224 without the defer keyword: the status is closed on the spot.
StatusCloseNow(cs) ==
    [cs EXCEPT !.opened = @ + 1, !.closed = @ + 1]

\* Line 224: defer a.UI.Status().Close(). Status() is evaluated now, Close
\* when the frame is left.
DeferStatusClose(cs) ==
    [cs EXCEPT !.opened = @ + 1, !.defers = << "Status.Close" >> \o @]

\* Lines 243-245 with the error wrapped.
WrappedCallError(cr) == "wrapped: " \o cr.err

\* Lines 243-245: the error of the call, as is.
CallError(cr) == cr.err

\* Lines 243-245 calling again after a failed call.
RetryOnCallError(cs, cr) ==
    IF cs.funcCalls < 2 /\ cr.err # ErrResolve
    THEN [cs EXCEPT !.pc = "call", !.callResult = NoResult]
    ELSE Return(cs, Nil, CallError(cr))

\* Lines 243-245: a failed call is returned at once.
OnCallError(cs, cr) == Return(cs, Nil, CallError(cr))

\* Line 250 with the check of the expected type dropped.
AlwaysVerify(result) == TRUE

\* Line 250: verification only with an expected result type.
NeedsVerify(result) == result # Nil

\* Lines 255-263: the verification of raw against the expected type.
\* reflect.TypeOf(nil).Elem() and a nil rawType's Implements panic.
Verify(cs, raw) ==
    LET v == [cs EXCEPT !.verified = TRUE]
    IN  IF cs.result = Nil \/ TypeOf(raw) = Nil
        THEN Panic(v)
        ELSE IF cs.result \in TypeImpl[TypeOf(raw)]
             THEN Return(v, raw, Nil)
             ELSE Return(v, Nil, ErrPrecondition(cs.result, TypeOf(raw)))

\* Line 202: a caller that holds a constructed App invokes f, expecting
\* result, under its own context.
callDynamicFunc_Enter(c) ==
    /\ newPc = "done"
    /\ newRet.app
    /\ call[c].pc = "idle"
    /\ \E f \in FuncKinds, result \in Capabilities \cup {Nil} :
          call' = [call EXCEPT ![c] =
                     [IdleCall EXCEPT !.pc = "normalize", !.f = f,
                                      !.result = result]]
    /\ UNCHANGED << lifeVars, closeVars, labels >>

\* Lines 227-228 appending the default arguments to the App's chain
\* instead of to args.
BuildArgsIntoChain(h, mappers) ==
    LET r == GoAppend(h, mappers, << << "arg", 0 >> >>, 2 * mappers.cap + 1)
    IN  [h |-> r.h, mappers |-> r.s, convs |-> r.s]

\* Lines 227-239: args = append(args, argmapper.ConverterFunc(a.mappers...),
\* ...). The chain is handed on as the slice a.mappers itself (no copy) and
\* only args is assigned: heap and a.mappers are left as they are.
BuildArgs(h, mappers) == [h |-> h, mappers |-> mappers, convs |-> mappers]

\* Lines 213-239: normalize f; on failure return before anything is
\* deferred; otherwise defer the close of the status and build the args.
callDynamicFunc_Normalize(c) ==
    /\ call[c].pc = "normalize"
    /\ LET cs == call[c]
           b  == BuildArgs(heap, a_mappers)
       IN  IF cs.f = "bad"
           THEN /\ call' = [call EXCEPT ![c] =
                              [cs EXCEPT !.pc = "returned",
                                  !.ret = [val |-> Nil, err |-> ErrNewFunc]]]
                /\ UNCHANGED << heap, a_mappers >>
           ELSE /\ call' = [call EXCEPT ![c] =
                              [DeferStatusClose([cs EXCEPT !.rawFunc = "Func"])
                                  EXCEPT !.pc = "call", !.convs = b.convs]]
                /\ heap' = b.h
                /\ a_mappers' = b.mappers
    /\ UNCHANGED << p_mappers, p_factories, registered, a_closers, a_dir,
                    plugin, exported, pluginCloses, newPc, newIdx, newRet,
                    closeVars, labels >>

\* Line 242, first half: rawFunc.Call resolves the arguments through the
\* converter chain; without a satisfying assignment the function is not
\* called.
callDynamicFunc_Call(c) ==
    /\ call[c].pc = "call"
    /\ \E resolved \in BOOLEAN :
          call' = [call EXCEPT ![c] =
              IF resolved
              THEN [@ EXCEPT !.pc = "inflight", !.funcCalls = @ + 1]
              ELSE [@ EXCEPT !.pc = "result",
                             !.callResult = [out |-> Nil, err |-> ErrResolve]]]
    /\ UNCHANGED << lifeVars, closeVars, labels >>

\* The outcomes of the called function: a value or nil, with or without
\* an error; a cancellation error only once the context is cancelled.
FuncOutcomes(ctxDone) ==
    { [out |-> o, err |-> e] :
        o \in Raws \cup {Nil},
        e \in {Nil, ErrCall} \cup (IF ctxDone THEN {ErrCanceled} ELSE {}) }

\* Line 242, second half: the called function returns.
callDynamicFunc_FuncReturns(c) ==
    /\ call[c].pc = "inflight"
    /\ \E r \in FuncOutcomes(call[c].ctxDone) :
          call' = [call EXCEPT ![c] = [@ EXCEPT !.pc = "result",
                                                !.callResult = r]]
    /\ UNCHANGED << lifeVars, closeVars, labels >>

\* The owner of ctx cancels it while the invocation has not finished.
ctx_Cancel(c) ==
    /\ call[c].pc \in {"normalize", "call", "inflight", "result"}
    /\ ~call[c].ctxDone
    /\ call' = [call EXCEPT ![c] =
                  [@ EXCEPT !.ctxDone = TRUE,
                            !.cancelledInFlight = (@ \/ call[c].pc = "inflight")]]
    /\ UNCHANGED << lifeVars, closeVars, labels >>

\* Lines 243-263: the error of the call, the raw result, its verification.
callDynamicFunc_Result(c) ==
    /\ call[c].pc = "result"
    /\ LET cs == call[c]
           cr == cs.callResult
       IN  call' = [call EXCEPT ![c] =
              IF cr.err # Nil
              THEN OnCallError(cs, cr)
              ELSE IF ~NeedsVerify(cs.result)
                   THEN Return(cs, cr.out, Nil)
                   ELSE Verify(cs, cr.out)]
    /\ UNCHANGED << lifeVars, closeVars, labels >>

\* ------------------------------------------------------ App.mergeLabels
LabelKeys == {"env", "team"}
LabelVals == {"prod", "staging"}

\* map[string]string over the keys and values above.
LabelSets == UNION { [D -> LabelVals] : D \in SUBSET LabelKeys }

\* One map laid over another: the keys of both, upper's value on collision.
Overlay(lower, upper) ==
    [k \in DOMAIN lower \cup DOMAIN upper |->
        IF k \in DOMAIN upper THEN upper[k] ELSE lower[k]]

\* The layers merged left to right onto base.
RECURSIVE labelsMerge(_, _)
labelsMerge(base, ls) ==
    IF ls = << >> THEN base
    ELSE labelsMerge(Overlay(base, Head(ls)), Tail(ls))

\* Project.mergeLabels: the project's own labels are the base, the given
\* sets are laid over them in order.
Project_mergeLabels(projectLabels, ls) == labelsMerge(projectLabels, ls)

\* Line 188 with the App's labels appended after the given sets.
App_mergeLabelsLast(configLabels, projectLabels, ls) ==
    Project_mergeLabels(projectLabels, ls \o << configLabels >>)

\* Lines 187-190: the App's configured labels go first, then the given
\* sets; the project merges them.
App_mergeLabels(configLabels, projectLabels, ls) ==
    Project_mergeLabels(projectLabels, << configLabels >> \o ls)

NoLabels ==
    [ pc |-> "idle", project |-> << >>, config |-> << >>, ls |-> << >>,
      result |-> << >> ]

\* Line 187: a call a.mergeLabels(ls...).
mergeLabels_Call ==
    /\ labels.pc = "called"
    /\ labels' = [labels EXCEPT
                    !.pc = "returned",
                    !.result = App_mergeLabels(labels.config, labels.project,
                                               labels.ls)]
    /\ UNCHANGED << lifeVars, closeVars, call >>

\* ------------------------------------------------------------- lifecycle
InitProject ==
    /\ \E n \in 0 .. MaxProjMappers, spare \in 0 .. MaxSpareCap :
          IF n + spare = 0
          THEN /\ heap = << >>
               /\ p_mappers = EmptySlice
          ELSE /\ heap = << ProjArray(n, spare) >>
               /\ p_mappers = [arr |-> 1, len |-> n, cap |-> n + spare]
    /\ p_factories \in BOOLEAN
    /\ \E n \in 0 .. MaxPlugins : registered = [i \in 1 .. n |-> i]

InitApp ==
    /\ a_mappers = EmptySlice
    /\ a_closers = << >>
    /\ a_dir = Nil
    /\ plugin = [n \in Names |-> "unstarted"]
    /\ exported = [n \in Names |-> << >>]
    /\ pluginCloses = [n \in Names |-> 0]
    /\ newPc = "start"
    /\ newIdx = 0
    /\ newRet = NoApp
    /\ closePc = "idle"
    /\ closeIdx = 0
    /\ closeInvoked = << >>
    /\ closeFailed = FALSE
    /\ closeRet = Nil
    /\ closeCalls = 0

InitIdle ==
    /\ call = [c \in Slots |-> IdleCall]
    /\ labels = NoLabels

Init == InitProject /\ InitApp /\ InitIdle

Next ==
    \/ newApp_Alloc
    \/ newApp_Dir
    \/ newApp_Factory
    \/ initMappers_Start
    \/ initMappers_Done
    \/ Close_Begin
    \/ Close_Handle
    \/ Close_Return

Spec == Init /\ [][Next]_vars

\* ------------------------------------------------------------- invocation
\* An App as newApp returns it for a project with a full chain and without
\* a mapper factory: its chain is the copy of line 85, its closers are empty.
InitConstructed ==
    /\ LET n  == MaxProjMappers
           h0 == << ProjArray(n, MaxSpareCap) >>
           p  == [arr |-> 1, len |-> n, cap |-> n + MaxSpareCap]
           r  == NewMappers(h0, p, n)
       IN  /\ p_mappers = p
           /\ heap = r.h
           /\ a_mappers = r.s
    /\ p_factories = FALSE
    /\ registered = << >>
    /\ a_closers = << >>
    /\ a_dir = "dir"
    /\ plugin = [n \in Names |-> "unstarted"]
    /\ exported = [n \in Names |-> << >>]
    /\ pluginCloses = [n \in Names |-> 0]
    /\ newPc = "done"
    /\ newIdx = 0
    /\ newRet = [app |-> TRUE, err |-> Nil]
    /\ closePc = "idle"
    /\ closeIdx = 0
    /\ closeInvoked = << >>
    /\ closeFailed = FALSE
    /\ closeRet = Nil
    /\ closeCalls = 0

NextCall ==
    \E c \in Calls :
        \/ callDynamicFunc_Enter(c)
        \/ callDynamicFunc_Normalize(c)
        \/ callDynamicFunc_Call(c)
        \/ callDynamicFunc_FuncReturns(c)
        \/ ctx_Cancel(c)
        \/ callDynamicFunc_Result(c)

InitCall == InitConstructed /\ InitIdle

SpecCall == InitCall /\ [][NextCall]_vars


\* ------------------------------------------------------------- concurrency
\* A project with a full chain and a mapper factory, before newApp.
InitFrozen ==
    /\ heap = << ProjArray(MaxProjMappers, MaxSpareCap) >>
    /\ p_mappers = [arr |-> 1, len |-> MaxProjMappers,
                    cap |-> MaxProjMappers + MaxSpareCap]
    /\ p_factories = TRUE
    /\ \E n \in 0 .. MaxPlugins : registered = [i \in 1 .. n |-> i]
    /\ InitApp
    /\ InitIdle

\* An invocation of a plain function that expects no capability, is not
\* cancelled and produces no value.
PlainCall(cs) ==
    /\ cs.f \in {Nil, "plain"}
    /\ cs.result = Nil
    /\ cs.callResult.out = Nil
    /\ ~cs.ctxDone

\* Construction, then plain invocations running at once on the App.
NextFrozen ==
    \/ newApp_Alloc
    \/ newApp_Dir
    \/ newApp_Factory
    \/ initMappers_Start
    \/ initMappers_Done
    \/ \E c \in Concurrent :
          /\ \/ callDynamicFunc_Enter(c)
             \/ callDynamicFunc_Normalize(c)
             \/ callDynamicFunc_Call(c)
             \/ callDynamicFunc_FuncReturns(c)
             \/ callDynamicFunc_Result(c)
          /\ PlainCall(call'[c])

SpecFrozen == InitFrozen /\ [][NextFrozen]_vars

\* ------------------------------------------------------------- labels
\* The label sets of the project and of the App's configuration, and the
\* sets a caller passes to mergeLabels.
InitLabelSets ==
    /\ \E project \in LabelSets, config \in LabelSets, n \in 0 .. MaxOverrides :
         \E ls \in [1 .. n -> LabelSets] :
            labels = [ pc |-> "called", project |-> project,
                       config |-> config, ls |-> ls, result |-> << >> ]
    /\ call = [c \in Slots |-> IdleCall]

NextLabels == mergeLabels_Call

InitLabels == InitConstructed /\ InitLabelSets

SpecLabels == InitLabels /\ [][NextLabels]_vars


\* ------------------------------------------------------------- properties
Finished(cs) == cs.pc \in {"returned", "panicked"}

\* The function was called and reported no error.
CallSucceeded(cs) ==
    cs.funcCalls = 1 /\ cs.pc # "inflight" /\ cs.callResult.err = Nil

\* The times the handle at position i of a.closers has been invoked.
HandleInvocations(i) == pluginCloses[a_closers[i].pinst]

\* C1: after any number of completed Close calls, every shutdown handle of
\* the App has been invoked exactly once.
C1_HandlesInvokedExactlyOnce ==
    (closeCalls >= 1 /\ closePc = "returned") =>
        \A i \in 1 .. Len(a_closers) : HandleInvocations(i) = 1

\* C2: when newApp returns the start error of a mapper plugin, the handle
\* of every plugin started earlier in that construction has been invoked.
C2_FailedConstructionClosesStarted ==
    (newPc = "done" /\ ~newRet.app /\ newRet.err # ErrDir) =>
        /\ \A i \in 1 .. Len(a_closers) : HandleInvocations(i) >= 1
        /\ \A n \in Names : plugin[n] # "running"

\* C3 as claimed: every invocation that has returned, whichever way, has
\* closed the UI status exactly once.
C3_StatusClosedOnEveryReturn ==
    \A c \in Calls : call[c].pc = "returned" => call[c].closed = 1

\* C3 as amended: an invocation that got past normalization closes the UI
\* status exactly once, when it is left (by return or by panic) and not
\* before; one that fails to normalize f neither opens nor closes it.
C3_StatusClosedOncePastNormalize ==
    \A c \in Calls :
        LET cs == call[c]
        IN  /\ cs.opened = IF cs.pc \in {"idle", "normalize"} \/ cs.f = "bad"
                           THEN 0 ELSE 1
            /\ cs.closed = IF Finished(cs) /\ cs.f # "bad" THEN 1 ELSE 0

\* C3 witness: an invocation whose argument resolution failed has returned
\* with the status closed once.
C3_Witness ==
    \E c \in Calls : /\ call[c].pc = "returned"
                     /\ call[c].ret.err = ErrResolve
                     /\ call[c].closed = 1

\* C4: with an expected capability and a successful call, a value that
\* implements the capability is returned as is with no error, and any
\* other produced value yields a FailedPrecondition error and no value.
C4_CapabilityValidated ==
    \A c \in Calls :
        LET cs  == call[c]
            raw == cs.callResult.out
        IN  (Finished(cs) /\ cs.result # Nil /\ CallSucceeded(cs)) =>
               /\ cs.pc = "returned"
               /\ IF raw # Nil /\ cs.result \in TypeImpl[ValueType[raw]]
                  THEN cs.ret = [val |-> raw, err |-> Nil]
                  ELSE /\ cs.ret.val = Nil
                       /\ cs.ret.err = ErrPrecondition(cs.result, TypeOf(raw))

\* C5: with a nil expected capability and a successful call, the produced
\* value is returned as is with a nil error, and is never verified.
C5_NilExpectationPassthrough ==
    \A c \in Calls :
        LET cs == call[c]
        IN  (Finished(cs) /\ cs.result = Nil /\ CallSucceeded(cs)) =>
               /\ cs.pc = "returned"
               /\ cs.ret = [val |-> cs.callResult.out, err |-> Nil]
               /\ ~cs.verified

\* C5 witness: a produced value came back with no capability expected.
C5_Witness ==
    \E c \in Calls : /\ call[c].pc = "returned"
                     /\ call[c].result = Nil
                     /\ call[c].ret.val \in Raws

\* C6: when resolution or the function fails with e, the invocation
\* returns e itself with a nil result and verifies nothing.
C6_ErrorPropagatedUnchanged ==
    \A c \in Calls :
        LET cs == call[c]
        IN  (Finished(cs) /\ cs.callResult.err # Nil) =>
               /\ cs.pc = "returned"
               /\ cs.ret = [val |-> Nil, err |-> cs.callResult.err]
               /\ ~cs.verified

\* C6 witness: the function returned a value together with an error, and
\* the invocation has returned.
C6_Witness ==
    \E c \in Calls : /\ call[c].pc = "returned"
                     /\ call[c].callResult.err = ErrCall
                     /\ call[c].callResult.out # Nil

\* C7: a Close that has returned has invoked every closer of the App, in
\* order, whatever the earlier ones did, and has returned nil.
C7_CloseInvokesAllReturnsNil ==
    closePc = "returned" =>
        /\ closeRet = Nil
        /\ Len(closeInvoked) = Len(a_closers)
        /\ \A i \in 1 .. Len(closeInvoked) : closeInvoked[i].i = i

\* C7 witness: Close returned after the first of two handles failed.
C7_Witness ==
    /\ closePc = "returned"
    /\ Len(closeInvoked) = 2
    /\ ~closeInvoked[1].ok

\* The converters exported by the first n registered plugins, in order.
RECURSIVE ExportsUpTo(_)
ExportsUpTo(n) ==
    IF n = 0 THEN << >> ELSE ExportsUpTo(n - 1) \o exported[registered[n]]

\* The project's chain as it was before newApp.
ProjectChain == [i \in 1 .. p_mappers.len |-> ProjConv(i)]

\* C8: the project's backing array is never written by App construction
\* and the App's chain never lives in it; a constructed App's chain is the
\* project's chain followed by the exports of the registered plugins in
\* order, which is the project's chain when no plugin was loaded.
C8_ChainExtension ==
    /\ p_mappers.arr # 0 =>
          heap[p_mappers.arr] = ProjArray(p_mappers.len,
                                          p_mappers.cap - p_mappers.len)
    /\ newPc # "start" =>
          (a_mappers.arr # p_mappers.arr \/ a_mappers.cap = 0)
    /\ (newPc = "done" /\ newRet.app) =>
          /\ Contents(heap, a_mappers) =
                ProjectChain \o (IF p_factories
                                 THEN ExportsUpTo(Len(registered)) ELSE << >>)
          /\ (~p_factories \/ registered = << >>) =>
                Contents(heap, a_mappers) = Contents(heap, p_mappers)

\* C8 witness: an App built over a project chain with spare capacity and
\* two plugins that each export converters.
C8_Witness ==
    /\ newPc = "done"
    /\ newRet.app
    /\ p_mappers.len >= 1
    /\ p_mappers.cap > p_mappers.len
    /\ Len(registered) = 2
    /\ \A i \in 1 .. 2 : exported[registered[i]] # << >>

\* The layers of a mergeLabels call that the App passes on, lowest first.
PassedLayers == << labels.config >> \o labels.ls

\* The rightmost of the layers that holds key k (0 when none does).
Rightmost(layers, k) ==
    LET holders == { i \in 1 .. Len(layers) : k \in DOMAIN layers[i] }
    IN  IF holders = {} THEN 0
        ELSE CHOOSE i \in holders : \A j \in holders : j <= i

\* Every key of a passed layer is in the result with the value of the
\* rightmost passed layer that holds it.
RightmostWins ==
    \A k \in LabelKeys :
        LET i == Rightmost(PassedLayers, k)
        IN  i # 0 => /\ k \in DOMAIN labels.result
                     /\ labels.result[k] = PassedLayers[i][k]

\* C9 as claimed: the App's labels are the lowest passed layer, the
\* rightmost layer wins, no key is lost, and with no override the result
\* is the App's own labels.
C9_LabelPrecedence ==
    labels.pc = "returned" =>
        /\ RightmostWins
        /\ labels.ls = << >> => labels.result = labels.config

\* C9 as amended: the rightmost passed layer wins and no key is lost; the
\* keys no passed layer holds are exactly the project's remaining labels,
\* so with no override the result is the App's labels laid over the
\* project's, and the App's labels alone when the project adds none.
C9_LabelLayers ==
    labels.pc = "returned" =>
        /\ RightmostWins
        /\ \A k \in DOMAIN labels.result :
              Rightmost(PassedLayers, k) = 0 =>
                 /\ k \in DOMAIN labels.project
                 /\ labels.result[k] = labels.project[k]
        /\ DOMAIN labels.project \subseteq DOMAIN labels.result
        /\ (labels.ls = << >> /\ DOMAIN labels.project \subseteq DOMAIN labels.config)
              => labels.result = labels.config

\* C9 witness: two overrides and the App's labels collide on a key and the
\* last override's value is the result's.
C9_Witness ==
    /\ labels.pc = "returned"
    /\ Len(labels.ls) = 2
    /\ \E k \in DOMAIN labels.config \cap DOMAIN labels.ls[1]
                                     \cap DOMAIN labels.ls[2] :
          /\ labels.ls[2][k] # labels.ls[1][k]
          /\ labels.ls[2][k] # labels.config[k]
          /\ labels.result[k] = labels.ls[2][k]

\* C10 as claimed: an invocation whose context was cancelled while the
\* function was in flight returns a cancellation error, the status closed.
C10_CancelledReturnsCancellation ==
    \A c \in Calls :
        (call[c].pc = "returned" /\ call[c].cancelledInFlight) =>
            /\ call[c].ret.err = ErrCanceled
            /\ call[c].closed = 1

\* C10 as amended: an invocation whose context was cancelled while the
\* function was in flight stays in flight until the function returns; it
\* then returns a cancellation error exactly when the function reported
\* one, and it is left with the status closed exactly once.
C10_CancelledReturnsFuncOutcome ==
    \A c \in Calls :
        LET cs == call[c]
        IN  cs.cancelledInFlight =>
               /\ cs.pc \in {"inflight", "result", "returned", "panicked"}
               /\ Finished(cs) =>
                     /\ cs.closed = 1
                     /\ cs.ret.err = ErrCanceled <=>
                           cs.callResult.err = ErrCanceled
                     /\ cs.callResult.err # Nil =>
                           (cs.pc = "returned" /\ cs.ret.err = cs.callResult.err)

\* C10 witness: cancelled in flight, the function reported the
\* cancellation and the invocation returned it.
C10_Witness ==
    \E c \in Calls : /\ call[c].pc = "returned"
                     /\ call[c].cancelledInFlight
                     /\ call[c].ret.err = ErrCanceled
                     /\ call[c].closed = 1


\* The plugin was started successfully (it runs, or it ran and was closed).
Started(n) == plugin[n] \in {"running", "closed"}

\* C12: once the start of a registered plugin has failed, newApp has
\* returned that start error and no App, and no plugin registered after
\* the failed one is ever started; a start error is only ever returned for
\* a plugin that failed.
C12_AbortOnFirstStartFailure ==
    /\ \A k \in 1 .. Len(registered) :
          plugin[registered[k]] = "failed" =>
             /\ newPc = "done"
             /\ newRet = [app |-> FALSE, err |-> ErrStart(registered[k])]
             /\ \A j \in 1 .. Len(registered) :
                   /\ j > k => plugin[registered[j]] = "unstarted"
                   /\ j < k => Started(registered[j])
    /\ (newPc = "done" /\ newRet.err \in { ErrStart(n) : n \in Names }) =>
          \E k \in 1 .. Len(registered) : plugin[registered[k]] = "failed"

\* C12 witness: the first of two registered plugins failed to start and
\* newApp has returned; the second was never started.
C12_Witness ==
    /\ newPc = "done"
    /\ Len(registered) = 2
    /\ plugin[registered[1]] = "failed"
    /\ plugin[registered[2]] = "unstarted"
    /\ ~newRet.app

\* C13: an invocation calls the target function at most once: not before
\* resolution, exactly once when resolution succeeded, never when
\* normalization or resolution failed, and not again after a failure.
C13_SingleDispatch ==
    \A c \in Calls :
        LET cs == call[c]
        IN  /\ cs.funcCalls <= 1
            /\ cs.pc \in {"idle", "normalize", "call"} => cs.funcCalls = 0
            /\ cs.pc = "inflight" => cs.funcCalls = 1
            /\ cs.pc \in {"result", "returned", "panicked"} =>
                  cs.funcCalls = IF cs.f = "bad" \/ cs.callResult.err = ErrResolve
                                 THEN 0 ELSE 1

\* C13 witness: the function was called once, failed, and the invocation
\* has returned its error.
C13_Witness ==
    \E c \in Calls : /\ call[c].pc = "returned"
                     /\ call[c].ret.err = ErrCall
                     /\ call[c].funcCalls = 1

\* The closers of the App that close plugin n.
HandlesFor(n) == { i \in 1 .. Len(a_closers) : a_closers[i].pinst = n }

\* C14: the closers hold exactly one handle for every plugin that was
\* started and none for any other, at every point; a Close that has
\* returned has called the Close of every started plugin.
C14_OneHandlePerStartedPlugin ==
    /\ \A n \in Names :
          Cardinality(HandlesFor(n)) = IF Started(n) THEN 1 ELSE 0
    /\ closePc = "returned" =>
          \A n \in Names : Started(n) => pluginCloses[n] >= 1

\* C14 witness: two plugins were started and a Close has returned.
C14_Witness ==
    /\ closePc = "returned"
    /\ Len(a_closers) = 2
    /\ \A n \in {registered[1], registered[2]} : pluginCloses[n] = 1

\* C15: an invocation that is over has returned, with a nil error or with
\* a nil value and an error, never with both and never by a panic.
C15_OutcomeTotalAndExclusive ==
    \A c \in Calls :
        LET cs == call[c]
        IN  Finished(cs) =>
               /\ cs.pc = "returned"
               /\ \/ cs.ret.err = Nil
                  \/ cs.ret.val = Nil /\ cs.ret.err # Nil

\* C16: the directory is acquired before any plugin is started: a plugin
\* is started, and a closer exists, only with the directory in hand, and a
\* construction that failed on the directory started nothing.
C16_DirectoryBeforePlugins ==
    /\ a_dir = Nil =>
          /\ a_closers = << >>
          /\ \A n \in Names : plugin[n] = "unstarted"
    /\ (newPc = "done" /\ newRet.err = ErrDir) =>
          /\ ~newRet.app
          /\ a_dir = Nil

\* C16 witness: a project with a mapper factory and registered plugins
\* whose app directory is unavailable; newApp has returned the error.
C16_Witness ==
    /\ newPc = "done"
    /\ newRet.err = ErrDir
    /\ p_factories
    /\ Len(registered) >= 1


\* xs is an initial part of ys.
IsPrefix(xs, ys) ==
    /\ Len(xs) <= Len(ys)
    /\ \A i \in 1 .. Len(xs) : xs[i] = ys[i]

\* The converter chain or the closers of the App differ after the step.
ChainOrClosersChange ==
    \/ a_mappers' # a_mappers
    \/ a_closers' # a_closers
    \/ Contents(heap', a_mappers') # Contents(heap, a_mappers)
    \/ a_mappers.arr # 0 /\ heap'[a_mappers.arr] # heap[a_mappers.arr]

\* C11: once newApp has returned, no step of any invocation, however the
\* invocations interleave, changes the App's converter chain (its slice,
\* its contents, its backing array) or its closers; before that, the two
\* change only in the loop of initMappers, and only by growing at the end.
C11_ChainFrozenAfterConstruction ==
    [][ ChainOrClosersChange =>
           /\ newPc \in {"start", "loop"}
           /\ newPc = "loop" =>
                 /\ IsPrefix(Contents(heap, a_mappers),
                             Contents(heap', a_mappers'))
                 /\ IsPrefix(a_closers, a_closers') ]_vars

\* C11 witness: on an App whose chain a plugin has extended, one
\* invocation is in flight while another has built its arguments from the
\* same chain.
C11_Witness ==
    \E c, d \in Concurrent :
        /\ c # d
        /\ call[c].pc = "inflight"
        /\ call[d].pc = "call"
        /\ call[c].convs = a_mappers
        /\ call[d].convs = a_mappers
        /\ a_mappers.len > p_mappers.len
        /\ a_closers # << >>

====
